---- MODULE Spec2Model ----
(***************************************************************************)
(* Model of shaddock/model.py: ModelDefinition, the resolver that turns a  *)
(* loaded YAML tree (clusters -> services -> hosts) into one service       *)
(* descriptor.  Python dicts are records whose absent keys hold the NoKey  *)
(* sentinel; Python exceptions are outcomes [exc, msg] of the operators.   *)
(***************************************************************************)
EXTENDS Integers, Sequences, FiniteSets, TLC

VARIABLES app_args, model, loaded, result, ncalls

vars == <<app_args, model, loaded, result, ncalls>>

\* ---------------------------------------------------------------- bounds
MaxClusters == 2
MaxServices == 2
MaxCalls == 2

\* ------------------------------------------------------------- sentinels
NoKey == "<nokey>"        \* the key is not in the dict
None == "<None>"          \* the key is there and holds Python None
NoneRepr == "None"        \* the str 'None': what yaml reads back from repr(None)
VarRef == "{{svc}}"       \* a jinja2 placeholder in a services template
NoKeyP == <<NoKey>>       \* a path/sequence valued key that is absent
NoneP == <<None>>         \* a path valued key holding None

ClusterNames == {"core", "edge"}
ServiceNames == {"nova", "glance"}

\* ------------------------------------------------- python value helpers
Min(S) == CHOOSE x \in S : \A y \in S : x <= y

SeqsUpTo(S, n) == UNION {[1..k -> S] : k \in 0..n}

\* os.path.dirname on a path held as its '/'-separated segments
dirname(p) == IF Len(p) = 0 THEN p ELSE SubSeq(p, 1, Len(p) - 1)

\* os.path.join(a, b) for str arguments: an absolute b discards a
pathjoin(a, b) == IF Len(b) > 0 /\ Head(b) = "/" THEN b ELSE a \o b

\* image.split(":")[0] on an image held as tokens, ":" a token of its own
RECURSIVE splitFirst(_)
splitFirst(img) ==
    IF Len(img) = 0 \/ Head(img) = ":" THEN <<>>
    ELSE <<Head(img)>> \o splitFirst(Tail(img))

\* A mapping is held as its ordered items [k, v], v a tuple; a list of scalars
\* is held as items [k, v] with v the empty tuple.
Element(x) == [k |-> x, v |-> <<>>]

\* [item for item in d.keys()]
keys(d) == [i \in DOMAIN d.items |-> Element(d.items[i].k)]

\* ------------------------------------------------------ document values
NoPorts == [form |-> NoKey, items |-> <<>>]
PortsMap ==
    [form |-> "map",
     items |-> << [k |-> 8774, v |-> <<"0.0.0.0", 8774>>],
                  [k |-> 8775, v |-> <<"0.0.0.0", 8775>>] >>]
NoVolumes == [form |-> NoKey, items |-> <<>>]
\* one {mount: m, host_dir: h} entry of a volumes sequence
VolumeEntry(m, h) == [k |-> m, v |-> <<h>>]
\* the value {bind: h, ro: r} of a binds mapping
Bind(h, r) == <<h, r>>
\* volumes as a list: a sequence of {mount, host_dir} entries
VolumesSeq ==
    [form |-> "seq",
     items |-> << VolumeEntry("/var/log/nova", "/var/log/shaddock/nova") >>]
\* volumes as a mapping, the shape that has .keys()
VolumesMap ==
    [form |-> "map",
     items |-> << [k |-> "/var/log/nova",
                   v |-> Bind("/var/log/shaddock/nova", FALSE)] >>]

\* an api_cfg dict: form "host" has the keys name and url, form "override"
\* the eight command-line keys, form "empty" none; a key that is not there
\* holds NoKey (a flag that is not there holds FALSE)
NoCfg ==
    [name |-> NoKey, url |-> NoKey, version |-> NoKey, cert_path |-> NoKey,
     key_path |-> NoKey, cacert_path |-> NoKey, tls_verify |-> FALSE,
     tls |-> FALSE, boot2docker |-> FALSE]
NoApiCfg == [form |-> NoKey, val |-> NoCfg]
EmptyApiCfg == [form |-> "empty", val |-> NoCfg]

\* a service entry as yaml reads it from the services text
RawService(name, image, host, ports, volumes) ==
    [name |-> name, image |-> image, host |-> host,
     ports |-> ports, volumes |-> volumes,
     cluster_name |-> NoKey, cluster |-> 0,
     images_dir |-> NoKeyP, path |-> NoKeyP,
     port_bindings |-> NoPorts, binds |-> NoVolumes,
     api_cfg |-> NoApiCfg]

ImageNova == <<"shaddock/nova", ":", "latest">>
ImageGlance == <<"shaddock/glance">>

Host(name, url) == [name |-> name, url |-> url]
NoHosts == [form |-> NoKey, items |-> <<>>]
HostList(items) == [form |-> "list", items |-> items]

NoVars == [form |-> NoKey, svc |-> NoKey]
Vars(v) == [form |-> "map", svc |-> v]

ServicesText(items) == [form |-> "text", items |-> items]
ServicesList(items) == [form |-> "list", items |-> items]
NoServices == [form |-> NoKey, items |-> <<>>]

Cluster(name, services, vs, images, hosts) ==
    [name |-> name, services |-> services, vars |-> vs,
     images |-> images, hosts |-> hosts]

\* ------------------------------------------------------------ outcomes
\* what a call leaves behind: the tree m, the exception raised ("" when the
\* call returned) with the raise site in msg, and the value returned
Return(m, v) == [m |-> m, exc |-> "", msg |-> "", val |-> v]
Raise(m, exc, msg) == [m |-> m, exc |-> exc, msg |-> msg, val |-> <<>>]

TemplateFileError == "TemplateFileError"

\* ------------------------------------------------- str(), yaml, jinja2
ReprNone(v) == IF v = None THEN NoneRepr ELSE v

ReprApiCfg(a) ==
    [a EXCEPT !.val.url = ReprNone(@), !.val.version = ReprNone(@),
              !.val.cert_path = ReprNone(@), !.val.key_path = ReprNone(@),
              !.val.cacert_path = ReprNone(@)]

\* repr() of one service dict as yaml reads it back: the back-reference is
\* printed as a nested literal (-1: a copy, no longer the cluster object) and
\* None is printed as the word None, which yaml reads as a str
ReprItem(svc) ==
    [svc EXCEPT !.cluster = IF svc.cluster = 0 THEN 0 ELSE -1,
                !.name = ReprNone(svc.name),
                !.api_cfg = ReprApiCfg(svc.api_cfg)]

\* str(cluster['services']): a str is itself, a list becomes its repr
Str(services) ==
    IF services.form = "list"
    THEN ServicesText([i \in DOMAIN services.items |-> ReprItem(services.items[i])])
    ELSE services

\* jinja2 Template(text).render(vars): an undefined variable renders empty,
\* which yaml then reads as null
Render(text, vs) ==
    ServicesText([i \in DOMAIN text.items |->
        IF text.items[i].name = VarRef
        THEN [text.items[i] EXCEPT !.name = IF vs.svc = NoKey THEN None ELSE vs.svc]
        ELSE text.items[i]])

\* yaml.load(text), called without a Loader as PyYAML before 6.0 allows; it
\* fails on an unrendered {{...}} (a mapping used as a mapping key)
YamlLoadFails(text) == \E i \in DOMAIN text.items : text.items[i].name = VarRef
YamlLoad(text) == ServicesList(text.items)

\* ------------------------------------------------- _get_clusters_list
\* every cluster's services is overwritten by its str(); a cluster without
\* the key stops the loop with KeyError, the earlier ones already rewritten
StrClusters(m, upto) ==
    [m EXCEPT !.clusters = [i \in DOMAIN m.clusters |->
        IF i < upto
        THEN [m.clusters[i] EXCEPT !.services = Str(m.clusters[i].services)]
        ELSE m.clusters[i]]]

_get_clusters_list(m) ==
    LET bad == {i \in DOMAIN m.clusters : m.clusters[i].services.form = NoKey}
    IN  IF bad = {}
        THEN Return(StrClusters(m, Len(m.clusters) + 1),
                    [i \in DOMAIN m.clusters |-> i])
        ELSE Raise(StrClusters(m, Min(bad)), "KeyError", "services")

\* ------------------------------------------------------- _get_cluster
DupClusterRaise(m) == Raise(m, TemplateFileError, "DuplicateCluster")

\* the scan without the len(cluster) > 1 check: the first match wins
FirstClusterWins(m, name) ==
    LET cl == _get_clusters_list(m)
        m1 == cl.m
        matches == {i \in DOMAIN m1.clusters : m1.clusters[i].name = name}
    IN  IF cl.exc # "" THEN cl
        ELSE IF \E i \in DOMAIN m1.clusters : m1.clusters[i].name = NoKey
        THEN Raise(m1, TemplateFileError, "ClusterMissingName")
        ELSE IF matches = {}
        THEN Raise(m1, TemplateFileError, "ClusterNotFound")
        ELSE Return(m1, Min(matches))

_get_cluster(m, name) ==
    LET cl == _get_clusters_list(m)
        m1 == cl.m
        matches == {i \in DOMAIN m1.clusters : m1.clusters[i].name = name}
    IN  IF cl.exc # "" THEN cl
        ELSE IF \E i \in DOMAIN m1.clusters : m1.clusters[i].name = NoKey
        THEN Raise(m1, TemplateFileError, "ClusterMissingName")
        ELSE IF Cardinality(matches) > 1 THEN DupClusterRaise(m1)
        ELSE IF matches = {}
        THEN Raise(m1, TemplateFileError, "ClusterNotFound")
        ELSE Return(m1, Min(matches))

\* ------------------------------------- _get_services_list_from_clu
Stamp(svc, clu, c) == [svc EXCEPT !.cluster_name = clu.name, !.cluster = c]

_get_services_list_from_clu(m, c) ==
    LET clu == m.clusters[c]
        text == IF clu.vars.form # NoKey THEN Render(clu.services, clu.vars)
                ELSE clu.services
        services == YamlLoad(text)
        m1 == [m EXCEPT !.clusters[c].services = services]
        stamped == ServicesList([i \in DOMAIN services.items |->
                                    Stamp(services.items[i], clu, c)])
    IN  IF YamlLoadFails(text) THEN Raise(m, "ConstructorError", "services")
        ELSE IF Len(services.items) > 0 /\ clu.name = NoKey
        THEN Raise(m1, "KeyError", "name")
        ELSE Return([m EXCEPT !.clusters[c].services = stamped],
                    [i \in DOMAIN services.items |-> <<c, i>>])

\* --------------------------------------------------- get_services_list
\* the loop with svc_list = clu_svc_list: each cluster replaces the list so far
RECURSIVE LastClusterOnly(_, _, _)
LastClusterOnly(m, k, svc_list) ==
    IF k > Len(m.clusters) THEN Return(m, svc_list)
    ELSE LET r == _get_services_list_from_clu(m, k)
         IN  IF r.exc # "" THEN r
             ELSE LastClusterOnly(r.m, k + 1, r.val)

RECURSIVE AllClusters(_, _, _)
AllClusters(m, k, svc_list) ==
    IF k > Len(m.clusters) THEN Return(m, svc_list)
    ELSE LET r == _get_services_list_from_clu(m, k)
         IN  IF r.exc # "" THEN r
             ELSE AllClusters(r.m, k + 1, svc_list \o r.val)

ScopedServices(m, cluster_name) ==
    LET cr == _get_cluster(m, cluster_name)
    IN  IF cr.exc # "" THEN cr
        ELSE _get_services_list_from_clu(cr.m, cr.val)

\* the list without the cluster_name test: every cluster is searched
IgnoreScope(m, cluster_name) ==
    LET cl == _get_clusters_list(m)
    IN  IF cl.exc # "" THEN cl ELSE AllClusters(cl.m, 1, <<>>)

get_services_list(m, cluster_name) ==
    IF cluster_name = None
    THEN LET cl == _get_clusters_list(m)
         IN  IF cl.exc # "" THEN cl ELSE AllClusters(cl.m, 1, <<>>)
    ELSE ScopedServices(m, cluster_name)

\* --------------------------------------------------------- get_service
SvcAt(m, ref) == m.clusters[ref[1]].services.items[ref[2]]
SetSvc(m, ref, svc) ==
    [m EXCEPT !.clusters[ref[1]].services.items[ref[2]] = svc]

\* lines 111-126: the one-match scan over the services list
DupServiceRaise(m) == Raise(m, TemplateFileError, "DuplicateService")

FindService(m, services_list, name) ==
    LET matches == {i \in DOMAIN services_list :
                       SvcAt(m, services_list[i]).name = name}
    IN  IF \E i \in DOMAIN services_list : SvcAt(m, services_list[i]).name = NoKey
        THEN Raise(m, TemplateFileError, "ServiceMissingName")
        ELSE IF Cardinality(matches) > 1 THEN DupServiceRaise(m)
        ELSE IF matches = {}
        THEN Raise(m, TemplateFileError, "ServiceNotFound")
        ELSE Return(m, services_list[Min(matches)])

\* lines 130-143: images_dir from the -d argument or the cluster's images key
ImagesDirStage(args, svc, clu) ==
    IF args.shdk_imgdir # NoneP
    THEN Return([svc EXCEPT !.images_dir = args.shdk_imgdir], <<>>)
    ELSE IF clu.images = NoKeyP THEN Raise(svc, "KeyError", "images")
    ELSE IF clu.images = NoneP
    THEN Raise(svc, TemplateFileError, "MissingImagesPath")
    ELSE Return([svc EXCEPT !.images_dir =
                    pathjoin(dirname(args.shdk_model), clu.images)], <<>>)

\* lines 144-152: the image key and the build path
PathStage(svc) ==
    IF svc.image = NoKeyP
    THEN Raise(svc, TemplateFileError, "MissingImageProperty")
    ELSE Return([svc EXCEPT !.path = svc.images_dir \o splitFirst(svc.image)], <<>>)

\* lines 157-160: ports.keys() needs a mapping
PortsStage(svc) ==
    IF svc.ports.form = NoKey THEN Return(svc, <<>>)
    ELSE IF svc.ports.form # "map" THEN Raise(svc, "AttributeError", "keys")
    ELSE Return([svc EXCEPT !.ports = [form |-> "list", items |-> keys(svc.ports)],
                            !.port_bindings = svc.ports], <<>>)

\* lines 164-167: volumes.keys() needs a mapping; binds is the value as declared
VolumesStage(svc) ==
    IF svc.volumes.form = NoKey THEN Return(svc, <<>>)
    ELSE IF svc.volumes.form # "map" THEN Raise(svc, "AttributeError", "keys")
    ELSE Return([svc EXCEPT !.volumes = [form |-> "list", items |-> keys(svc.volumes)],
                            !.binds = svc.volumes], <<>>)

\* lines 173-180: the api_cfg built from the command line
OverrideCfg(args) ==
    [form |-> "override",
     val |-> [name |-> NoKey,
              url |-> args.docker_url, version |-> args.docker_version,
              cert_path |-> args.docker_cert_path,
              key_path |-> args.docker_key_path,
              cacert_path |-> args.docker_cacert_path,
              tls_verify |-> args.docker_tls_verify, tls |-> args.docker_tls,
              boot2docker |-> args.docker_boot2docker]]

\* the api_cfg that is one entry of the cluster's hosts
HostApiCfg(h) ==
    [form |-> "host", val |-> [NoCfg EXCEPT !.name = h.name, !.url = h.url]]

\* lines 182-195: the one-match scan over the cluster's hosts; a KeyError in
\* the scan is swallowed and leaves api_cfg the empty dict
HostCfg(svc, clu) ==
    LET hosts == clu.hosts
        matches == {i \in DOMAIN hosts.items : hosts.items[i].name = svc.host}
    IN  IF hosts.form = NoKey THEN Return(EmptyApiCfg, <<>>)
        ELSE IF hosts.form = "none" THEN Raise(NoApiCfg, "TypeError", "hosts")
        ELSE IF Len(hosts.items) > 0 /\
                (svc.host = NoKey \/ \E i \in DOMAIN hosts.items :
                                         hosts.items[i].name = NoKey)
        THEN Return(EmptyApiCfg, <<>>)
        ELSE IF Cardinality(matches) > 1
        THEN Raise(NoApiCfg, TemplateFileError, "DuplicateHost")
        ELSE IF matches = {}
        THEN IF svc.host = NoKey THEN Raise(NoApiCfg, "KeyError", "host")
             ELSE Raise(NoApiCfg, TemplateFileError, "HostNotFound")
        ELSE Return(HostApiCfg(hosts.items[Min(matches)]), <<>>)

\* the hosts list looked at first, the command line only when it has no hosts
HostsBeforeOverride(args, svc, clu) ==
    IF args.docker_url # None /\ clu.hosts.form = NoKey
    THEN Return(OverrideCfg(args), <<>>)
    ELSE HostCfg(svc, clu)

ApiCfgStage(args, svc, clu) ==
    IF args.docker_url # None THEN Return(OverrideCfg(args), <<>>)
    ELSE HostCfg(svc, clu)

\* lines 128-197 on the service found: each stage works on the service dict
\* in the tree, so what a stage wrote stays when a later one raises
Normalize(m, args, ref) ==
    LET s0 == SvcAt(m, ref)
        clu == m.clusters[s0.cluster]
        r1 == ImagesDirStage(args, s0, clu)
        r2 == PathStage(r1.m)
        r3 == PortsStage(r2.m)
        r4 == VolumesStage(r3.m)
        r5 == ApiCfgStage(args, r4.m, clu)
        fail(r) == Raise(SetSvc(m, ref, r.m), r.exc, r.msg)
    IN  IF r1.exc # "" THEN fail(r1)
        ELSE IF r2.exc # "" THEN fail(r2)
        ELSE IF r3.exc # "" THEN fail(r3)
        ELSE IF r4.exc # "" THEN fail(r4)
        ELSE IF r5.exc # "" THEN Raise(SetSvc(m, ref, r4.m), r5.exc, r5.msg)
        ELSE Return(SetSvc(m, ref, [r4.m EXCEPT !.api_cfg = r5.m]), ref)

get_service(m, args, name) ==
    LET sl == get_services_list(m, args.shdk_cluster)
        found == FindService(sl.m, sl.val, name)
    IN  IF sl.exc # "" THEN sl
        ELSE IF found.exc # "" THEN found
        ELSE Normalize(found.m, args, found.val)

\* ------------------------------------------------------------- actions
Outcome(op, arg, r) ==
    [op |-> op, arg |-> arg, exc |-> r.exc, msg |-> r.msg, val |-> r.val]

RequestedClusters == ClusterNames \cup {"db"}
RequestedServices == ServiceNames \cup {"keystone"}

GetCluster(name) ==
    /\ ncalls < MaxCalls
    /\ LET r == _get_cluster(model, name)
       IN  /\ model' = r.m
           /\ result' = Outcome("_get_cluster", name, r)
    /\ ncalls' = ncalls + 1
    /\ UNCHANGED <<app_args, loaded>>

GetServicesList ==
    /\ ncalls < MaxCalls
    /\ LET r == get_services_list(model, app_args.shdk_cluster)
       IN  /\ model' = r.m
           /\ result' = Outcome("get_services_list", "", r)
    /\ ncalls' = ncalls + 1
    /\ UNCHANGED <<app_args, loaded>>

GetService(name) ==
    /\ ncalls < MaxCalls
    /\ LET r == get_service(model, app_args, name)
       IN  /\ model' = r.m
           /\ result' = Outcome("get_service", name, r)
    /\ ncalls' = ncalls + 1
    /\ UNCHANGED <<app_args, loaded>>

Next ==
    \/ \E name \in RequestedClusters : GetCluster(name)
    \/ GetServicesList
    \/ \E name \in RequestedServices : GetService(name)

\* ------------------------------------------------------- initial states
\* __init__: the arguments are kept, the file is loaded into self.model
AppArgs(scopes, imgdirs, urls) ==
    [shdk_cluster : scopes, shdk_model : {<<"etc", "shaddock", "model.yml">>},
     shdk_imgdir : imgdirs, docker_url : urls,
     docker_version : {None}, docker_cert_path : {None},
     docker_key_path : {None}, docker_cacert_path : {None},
     docker_tls_verify : {FALSE}, docker_tls : {FALSE},
     docker_boot2docker : {FALSE}]

Loaded(args, doc) ==
    /\ app_args = args
    /\ model = doc
    /\ loaded = doc
    /\ result = [op |-> "load", arg |-> "", exc |-> "", msg |-> "", val |-> <<>>]
    /\ ncalls = 0

Documents(clusters) == {[clusters |-> cs] : cs \in SeqsUpTo(clusters, MaxClusters)}

GoodHosts == HostList(<<Host("node1", "tcp://node1:2375"), Host("node2", "tcp://node2:2375")>>)
NovaService == RawService("nova", ImageNova, "node1", PortsMap, VolumesMap)
GlanceService == RawService("glance", ImageGlance, "node2", NoPorts, NoVolumes)

\* documents for cluster resolution: names repeat or are missing
ClusterDocs ==
    Documents({Cluster(n, s, NoVars, <<"images">>, GoodHosts) :
                  n \in ClusterNames \cup {NoKey},
                  s \in {ServicesText(<<NovaService>>), NoServices}})

InitClusters ==
    \E args \in AppArgs(ClusterNames \cup {None}, {NoneP}, {None}) :
        \E doc \in ClusterDocs : Loaded(args, doc)

\* documents for service resolution: the first cluster holds up to MaxServices
\* services, as text, as a list, or as a template with its variable; the
\* clusters after it hold at most one service and may repeat its name
TemplatedService == RawService(VarRef, ImageGlance, "node2", NoPorts, NoVolumes)

FirstClusters ==
    {Cluster("core", ServicesText(l), NoVars, <<"images">>, GoodHosts) :
        l \in SeqsUpTo({NovaService, GlanceService}, MaxServices)}
    \cup {Cluster("core", ServicesText(<<TemplatedService>>), Vars(v),
                  <<"images">>, GoodHosts) : v \in ServiceNames}
    \cup {Cluster("core", ServicesList(<<NovaService>>), NoVars,
                  <<"images">>, GoodHosts)}

OtherClusters ==
    {Cluster(n, ServicesText(l), NoVars, <<"images">>, GoodHosts) :
        n \in ClusterNames, l \in SeqsUpTo({NovaService, GlanceService}, 1)}

ServiceDocs ==
    {[clusters |-> <<f>> \o rest] :
        f \in FirstClusters, rest \in SeqsUpTo(OtherClusters, MaxClusters - 1)}

InitServices ==
    \E args \in AppArgs(ClusterNames \cup {None}, {NoneP}, {None}) :
        \E doc \in ServiceDocs : Loaded(args, doc)

\* documents for the descriptor stages: one service whose cluster varies in
\* its hosts, its images path, or the shape of the service's ports and volumes
HostsChoices ==
    {NoHosts, [form |-> "none", items |-> <<>>], HostList(<<>>), GoodHosts,
     HostList(<<Host("node1", "tcp://node1:2375")>>),
     HostList(<<Host("node2", "tcp://node2:2375")>>),
     HostList(<<Host("node1", "tcp://node1:2375"), Host("node1", "tcp://other:2375")>>),
     HostList(<<Host(NoKey, "tcp://node1:2375")>>)}

ImagesChoices == {NoKeyP, NoneP, <<"images">>, <<"/", "srv", "images">>}

PortsList == [form |-> "list", items |-> <<Element(8774), Element(8775)>>]

NormalizeClusters ==
    {Cluster("core", ServicesText(<<RawService("nova", ImageNova, h, PortsMap, VolumesMap)>>),
             NoVars, <<"images">>, hs) :
        h \in {"node1", NoKey}, hs \in HostsChoices}
    \cup {Cluster("core", ServicesText(<<RawService("nova", img, "node1", PortsMap, VolumesMap)>>),
                  NoVars, im, GoodHosts) :
             img \in {ImageNova, ImageGlance, NoKeyP}, im \in ImagesChoices}
    \cup {Cluster("core", ServicesText(<<RawService("nova", ImageNova, "node1", ps, vs)>>),
                  NoVars, <<"images">>, GoodHosts) :
             ps \in {NoPorts, PortsMap, PortsList},
             vs \in {NoVolumes, VolumesSeq, VolumesMap}}

EdgeCluster ==
    Cluster("edge", ServicesText(<<GlanceService>>), NoVars, <<"images">>, GoodHosts)

NormalizeDocs ==
    {[clusters |-> <<f>> \o rest] :
        f \in NormalizeClusters, rest \in SeqsUpTo({EdgeCluster}, MaxClusters - 1)}

InitNormalize ==
    \E args \in AppArgs({None, "core"}, {NoneP, <<"/", "opt", "images">>},
                        {None, "tcp://cli:2375"}) :
        \E doc \in NormalizeDocs : Loaded(args, doc)

\* documents with a malformed services entry: a service without a name, a
\* placeholder in a cluster without vars, a placeholder whose variable is unset
MalformedClusters ==
    {Cluster("core", ServicesText(<<RawService(NoKey, ImageNova, "node1", NoPorts, NoVolumes)>>),
             NoVars, <<"images">>, GoodHosts),
     Cluster("core", ServicesText(<<TemplatedService>>), NoVars, <<"images">>, GoodHosts),
     Cluster("core", ServicesText(<<TemplatedService>>), Vars(NoKey), <<"images">>, GoodHosts),
     EdgeCluster}

InitMalformed ==
    \E args \in AppArgs({None, "core"}, {NoneP}, {None}) :
        \E doc \in Documents(MalformedClusters) : Loaded(args, doc)

Init == InitClusters \/ InitServices \/ InitNormalize \/ InitMalformed

Spec == Init /\ [][Next]_vars

\* ------------------------------------------- reading the loaded document
\* the clusters of a document that carry the name n
ClustersNamed(doc, n) == {i \in DOMAIN doc.clusters : doc.clusters[i].name = n}

\* every cluster entry is a Cluster of the data model: name and services present
ClustersWellFormed(doc) ==
    \A i \in DOMAIN doc.clusters :
        /\ doc.clusters[i].name # NoKey
        /\ doc.clusters[i].services.form # NoKey

\* the name a declared service has once the cluster's variables are filled in
ExpandedName(clu, i) ==
    LET n == clu.services.items[i].name
    IN  IF n = VarRef /\ clu.vars.form # NoKey
        THEN IF clu.vars.svc = NoKey THEN None ELSE clu.vars.svc
        ELSE n

\* where, in the clusters cs of a document, a service named n is declared
Occurrences(doc, cs, n) ==
    UNION {{<<c, i>> : i \in {j \in DOMAIN doc.clusters[c].services.items :
                                 ExpandedName(doc.clusters[c], j) = n}} : c \in cs}

\* every service entry carries a name and no placeholder is left unfilled
ServicesWellFormed(doc) ==
    /\ ClustersWellFormed(doc)
    /\ \A c \in DOMAIN doc.clusters :
          \A i \in DOMAIN doc.clusters[c].services.items :
              ExpandedName(doc.clusters[c], i) \notin {NoKey, VarRef}

\* the one declared service a get_service(n) call searches out, if there is one
Searched(doc, args) ==
    IF args.shdk_cluster = None THEN DOMAIN doc.clusters
    ELSE ClustersNamed(doc, args.shdk_cluster)

FoundOnce(doc, args, n) ==
    /\ ServicesWellFormed(doc)
    /\ args.shdk_cluster # None => Cardinality(Searched(doc, args)) = 1
    /\ Cardinality(Occurrences(doc, Searched(doc, args), n)) = 1

Target(doc, args, n) == CHOOSE o \in Occurrences(doc, Searched(doc, args), n) : TRUE

\* the declared service at t passes every descriptor stage of a first call
Normalizable(doc, args, t) ==
    LET clu == doc.clusters[t[1]]
        svc == clu.services.items[t[2]]
    IN  /\ svc.image # NoKeyP
        /\ svc.ports.form \in {NoKey, "map"}
        /\ svc.volumes.form \in {NoKey, "map"}
        /\ args.shdk_imgdir # NoneP \/ clu.images \notin {NoKeyP, NoneP}
        /\ \/ args.docker_url # None
           \/ /\ clu.hosts.form = "list"
              /\ svc.host # NoKey
              /\ \A i \in DOMAIN clu.hosts.items : clu.hosts.items[i].name # NoKey
              /\ Cardinality({i \in DOMAIN clu.hosts.items :
                                 clu.hosts.items[i].name = svc.host}) = 1

\* ------------------------------------------------------------------ C1
\* C1: over cluster entries that all carry a name (and a services value, as
\* every Cluster does), _get_cluster(name) returns the cluster of that name
\* when exactly one entry has it, raises the cluster-not-found error when none
\* has it and the duplicate-cluster error when two or more have it.
C1_ClusterResolution ==
    (result.op = "_get_cluster" /\ ClustersWellFormed(loaded)) =>
        LET same == ClustersNamed(loaded, result.arg)
        IN  /\ Cardinality(same) = 1 =>
                 (result.exc = "" /\ result.val \in same
                  /\ model.clusters[result.val].name = result.arg)
            /\ same = {} =>
                 (result.exc = TemplateFileError /\ result.msg = "ClusterNotFound")
            /\ Cardinality(same) >= 2 =>
                 (result.exc = TemplateFileError /\ result.msg = "DuplicateCluster")

C1_Witness ==
    /\ result.op = "_get_cluster"
    /\ ClustersWellFormed(loaded)
    /\ Cardinality(ClustersNamed(loaded, result.arg)) >= 2
    /\ result.msg = "DuplicateCluster"

\* ----------------------------------------------------------------- C10
\* C10: in a document where two clusters have the same name, get_services_list
\* and get_service raise the duplicate-cluster error, with that name as the
\* scope and with no scope alike.
C10_DuplicateClusterOnEveryPath ==
    (/\ result.op \in {"get_services_list", "get_service"}
     /\ ClustersWellFormed(loaded)
     /\ \E n \in ClusterNames :
           /\ Cardinality(ClustersNamed(loaded, n)) >= 2
           /\ app_args.shdk_cluster \in {n, None})
    => (result.exc = TemplateFileError /\ result.msg = "DuplicateCluster")

\* ------------------------------------------------------------ C2, C3
\* the outcomes of the search itself (lines 109-126)
SearchErrors == {"ServiceNotFound", "DuplicateService", "ServiceMissingName"}

\* C2: with a cluster scope, a service that get_service returns belongs to the
\* scoped cluster, and a service of the same name declared in another cluster
\* causes neither a duplicate-service nor a not-found error.
C2_ScopedServiceStaysInScope ==
    (result.op = "get_service" /\ app_args.shdk_cluster # None) =>
        LET scope == app_args.shdk_cluster
            own == ClustersNamed(loaded, scope)
        IN  /\ result.exc = "" =>
                 /\ SvcAt(model, result.val).cluster_name = scope
                 /\ SvcAt(model, result.val).cluster \in own
                 /\ result.val[1] \in own
                 /\ result.val \in Occurrences(loaded, own, result.arg)
            /\ (/\ ServicesWellFormed(loaded)
                /\ Cardinality(own) = 1
                /\ Cardinality(Occurrences(loaded, own, result.arg)) = 1)
               => /\ result.msg \notin SearchErrors
                  /\ (ncalls = 1 /\ Normalizable(loaded, app_args,
                                                 Target(loaded, app_args, result.arg)))
                     => result.exc = ""

C2_Witness ==
    /\ result.op = "get_service"
    /\ app_args.shdk_cluster # None
    /\ result.exc = ""
    /\ \E o \in Occurrences(loaded, DOMAIN loaded.clusters, result.arg) :
          loaded.clusters[o[1]].name # app_args.shdk_cluster

\* C3: with no scope, get_service(name) searches every cluster's services: it
\* raises service-not-found when no service of the document has the name,
\* duplicate-service when two or more have it (in one cluster or in several),
\* and selects the service when exactly one has it.
C3_UnscopedServiceResolution ==
    (/\ result.op = "get_service"
     /\ app_args.shdk_cluster = None
     /\ ServicesWellFormed(loaded)) =>
        LET occ == Occurrences(loaded, DOMAIN loaded.clusters, result.arg)
        IN  /\ occ = {} =>
                 (result.exc = TemplateFileError /\ result.msg = "ServiceNotFound")
            /\ Cardinality(occ) >= 2 =>
                 (result.exc = TemplateFileError /\ result.msg = "DuplicateService")
            /\ Cardinality(occ) = 1 =>
                 /\ result.msg \notin SearchErrors
                 /\ result.exc = "" =>
                       (result.val \in occ /\ SvcAt(model, result.val).name = result.arg)
                 /\ (ncalls = 1 /\ \A t \in occ : Normalizable(loaded, app_args, t))
                    => result.exc = ""

C3_Witness ==
    /\ result.op = "get_service"
    /\ app_args.shdk_cluster = None
    /\ ServicesWellFormed(loaded)
    /\ result.exc = ""
    /\ result.val[1] > 1
    /\ \E c \in DOMAIN loaded.clusters : loaded.clusters[c].name # loaded.clusters[result.val[1]].name

\* -------------------------------------------------------- C4 .. C7
\* C4: a descriptor that get_service returns has an api_cfg that is the
\* command-line override or the one host of the owning cluster named by the
\* service's host; and the host step fails only with the host-not-found or
\* duplicate-host error.
C4_ApiCfgOverrideOrUniqueHost ==
    (result.op = "get_service") =>
        /\ result.exc = "" =>
             LET svc == SvcAt(model, result.val)
                 hosts == model.clusters[svc.cluster].hosts
                 matches == {i \in DOMAIN hosts.items : hosts.items[i].name = svc.host}
             IN  \/ app_args.docker_url # None /\ svc.api_cfg.form = "override"
                 \/ /\ app_args.docker_url = None
                    /\ svc.api_cfg.form = "host"
                    /\ svc.host # NoKey
                    /\ Cardinality(matches) = 1
                    /\ \A i \in matches :
                          /\ svc.api_cfg.val.name = hosts.items[i].name
                          /\ svc.api_cfg.val.url = hosts.items[i].url
        /\ ~(result.exc = "TypeError" /\ result.msg = "hosts")
        /\ ~(result.exc = "KeyError" /\ result.msg = "host")

\* C5: with an API override the api_cfg of the returned descriptor is made of
\* the override's fields alone and the hosts list is never read: no host
\* error is raised whatever the hosts list holds.
C5_OverrideIgnoresHosts ==
    (result.op = "get_service" /\ app_args.docker_url # None) =>
        /\ result.msg \notin {"HostNotFound", "DuplicateHost", "hosts", "host"}
        /\ result.exc = "" =>
             LET a == SvcAt(model, result.val).api_cfg
             IN  /\ a.form = "override"
                 /\ a.val.url = app_args.docker_url
                 /\ a.val.version = app_args.docker_version
                 /\ a.val.cert_path = app_args.docker_cert_path
                 /\ a.val.key_path = app_args.docker_key_path
                 /\ a.val.cacert_path = app_args.docker_cacert_path
                 /\ a.val.tls_verify = app_args.docker_tls_verify
                 /\ a.val.tls = app_args.docker_tls
                 /\ a.val.boot2docker = app_args.docker_boot2docker
                 /\ a.val.name = NoKey
        /\ (/\ ncalls = 1
            /\ FoundOnce(loaded, app_args, result.arg)
            /\ Normalizable(loaded, app_args, Target(loaded, app_args, result.arg)))
           => result.exc = ""

C5_Witness ==
    /\ result.op = "get_service"
    /\ app_args.docker_url # None
    /\ result.exc = ""
    /\ LET svc == SvcAt(model, result.val)
           hosts == model.clusters[svc.cluster].hosts
       IN  /\ hosts.form = "list"
           /\ Cardinality({i \in DOMAIN hosts.items : hosts.items[i].name = svc.host}) = 2

\* C6: with no images-directory override and a cluster that declares no
\* images path (no images key, or a null value), get_service fails with the
\* missing-images-path model error.
C6_MissingImagesPathError ==
    (/\ result.op = "get_service"
     /\ app_args.shdk_imgdir = NoneP
     /\ FoundOnce(loaded, app_args, result.arg)
     /\ LET t == Target(loaded, app_args, result.arg)
        IN  /\ loaded.clusters[t[1]].images \in {NoKeyP, NoneP}
            /\ loaded.clusters[t[1]].services.items[t[2]].image # NoKeyP)
    => (result.exc = TemplateFileError /\ result.msg = "MissingImagesPath")

\* C7: a service whose volumes is a sequence of {mount, host_dir} entries
\* resolves to volumes = the mount paths in order and binds = the mapping of
\* each mount path to {bind: host_dir, ro: false}.
C7_VolumesSplitIntoMountsAndBinds ==
    (/\ result.op = "get_service"
     /\ ncalls = 1
     /\ FoundOnce(loaded, app_args, result.arg)
     /\ LET t == Target(loaded, app_args, result.arg)
            svc == loaded.clusters[t[1]].services.items[t[2]]
        IN  /\ svc.volumes.form = "seq"
            /\ svc.image # NoKeyP
            /\ svc.ports.form \in {NoKey, "map"}
            /\ app_args.shdk_imgdir # NoneP
            /\ app_args.docker_url # None)
    => /\ result.exc = ""
       /\ LET t == Target(loaded, app_args, result.arg)
              decl == loaded.clusters[t[1]].services.items[t[2]].volumes.items
              svc == SvcAt(model, result.val)
          IN  /\ svc.volumes = [form |-> "list",
                                items |-> [i \in DOMAIN decl |-> Element(decl[i].k)]]
              /\ svc.binds = [form |-> "map",
                              items |-> [i \in DOMAIN decl |->
                                  [k |-> decl[i].k,
                                   v |-> Bind(decl[i].v[1], FALSE)]]]

\* ------------------------------------------------------------ C8, C9
\* C8: the resolution calls are pure over the loaded tree: after
\* get_services_list and get_service calls, returning or raising, the tree is
\* the tree load produced (stated here for the documents whose every cluster
\* and service entry is complete).
C8_TreeUnchangedByResolution ==
    (result.op \in {"get_services_list", "get_service"} /\ ServicesWellFormed(loaded))
    => model = loaded

\* C9: every failure of a resolution call is raised as TemplateFileError,
\* whatever is missing from the cluster and service entries (stated here for
\* the documents whose clusters all have a services key).
C9_OnlyTemplateFileError ==
    (\A c \in DOMAIN loaded.clusters : loaded.clusters[c].services.form # NoKey)
    => result.exc \in {"", TemplateFileError}

====
